---------------------------- MODULE Spec2Model ----------------------------
(***************************************************************************)
(* Model of the URL shortener (urlshortener/models.py, views.py, tasks.py). *)
(*                                                                         *)
(* Strings are sequences of byte values (URLs) or of base64url alphabet    *)
(* indices 0..63 (short codes); 64 stands for the padding character '='.   *)
(***************************************************************************)
EXTENDS Integers, Sequences, FiniteSets, TLC

(***************************************************************************)
(* Bounds of the model.                                                    *)
(***************************************************************************)
MaxShorten  == 2   \* shorten requests started in one behaviour
MaxRedirect == 2   \* redirect requests served in one behaviour
MaxRuns     == 2   \* count_log_click runs started in one behaviour
MaxTail     == 3   \* characters after "http://a.io/" in the URLs given to the codec

(***************************************************************************)
(* Inputs: URLs as byte strings.                                           *)
(***************************************************************************)
URL_P  == <<104,116,116,112,58,47,47,97,46,105,111,47,112>>        \* "http://a.io/p"
URL_PQ == <<104,116,116,112,58,47,47,97,46,105,111,47,112,63,120>> \* "http://a.io/p?x"
URL_Y  == <<104,116,116,112,58,47,47,97,46,105,111,47,113>>        \* "http://a.io/q"
URL_BAD == <<112>>                                                 \* "p": not a URL
URL_NONE == <<>>                                                   \* missing / empty

HTTP_PREFIX == <<104,116,116,112,58,47,47>>                        \* "http://"

PAD == 64          \* '=' in a base64 string

(***************************************************************************)
(* Generic helpers.                                                        *)
(***************************************************************************)
Prefix(s, n) == SubSeq(s, 1, n)
Suffix(s, n) == SubSeq(s, Len(s) - n + 1, Len(s))

Min(S) == CHOOSE x \in S : \A y \in S : x <= y
Max(S) == CHOOSE x \in S : \A y \in S : x >= y

\* The(S) is the element of a one-element set.  The(  {e(x) : x \in {arg}}  ) computes
\* e with x bound to the value of arg, so that arg is evaluated once.
The(S) == CHOOSE x \in S : TRUE

\* str.rstrip('=')
rstrip_pad(str) ==
    The({ LET keep == {i \in 1..Len(s) : s[i] # PAD} IN
          IF keep = {} THEN <<>> ELSE Prefix(s, Max(keep))
        : s \in {str} })

(***************************************************************************)
(* base64.urlsafe_b64encode on a byte string: every 6 bits of the input    *)
(* give one character, the last one zero-filled, and the output is padded  *)
(* with '=' to a multiple of four characters.                              *)
(***************************************************************************)
urlsafe_b64encode(bytes) ==
    The({ LET n == Len(b)
              m == (8 * n + 5) \div 6
              total == 4 * ((n + 2) \div 3)
              sextet(k) ==
                  LET bit == 6 * (k - 1)
                      j == (bit \div 8) + 1
                      hi == b[j]
                      lo == IF j + 1 <= n THEN b[j + 1] ELSE 0
                  IN  ((hi * 256 + lo) \div (2 ^ (10 - (bit % 8)))) % 64
          IN  [k \in 1..total |-> IF k <= m THEN sextet(k) ELSE PAD]
        : b \in {bytes} })

(***************************************************************************)
(* base64.urlsafe_b64decode (binascii.a2b_base64, non-strict) followed by  *)
(* bytes.decode().  The data characters are those before the first '=';    *)
(* a group of one character cannot be decoded, a group of two or three     *)
(* needs the padding that completes it, and excess padding is ignored.     *)
(* Bytes outside ASCII are treated as undecodable text.                    *)
(***************************************************************************)
DecodeError == [ok |-> FALSE, err |-> "Failed to decode the short code"]

\* a2b_base64 in strict mode: excess padding is an error
a2b_base64_strict(str) ==
    The({ LET padAt == {i \in 1..Len(s) : s[i] = PAD}
              n == IF padAt = {} THEN Len(s) ELSE Min(padAt) - 1
              pads == Cardinality(padAt)
              complete == \/ n % 4 = 0 /\ pads = 0
                          \/ n % 4 = 2 /\ pads = 2
                          \/ n % 4 = 3 /\ pads = 1
              byte(j) ==
                  LET bit == 8 * (j - 1)
                      k == (bit \div 6) + 1
                      c3 == IF k + 2 <= n THEN s[k + 2] ELSE 0
                      v == s[k] * 4096 + s[k + 1] * 64 + c3
                  IN  (v \div (2 ^ (10 - (bit % 6)))) % 256
          IN  IF ~complete THEN DecodeError
              ELSE [ok |-> TRUE, bytes |-> [j \in 1..((n * 6) \div 8) |-> byte(j)]]
        : s \in {str} })

a2b_base64(str) ==
    The({ LET padAt == {i \in 1..Len(s) : s[i] = PAD}
              n == IF padAt = {} THEN Len(s) ELSE Min(padAt) - 1
              pads == Cardinality(padAt)
              complete == \/ n % 4 = 0
                          \/ n % 4 = 2 /\ pads >= 2
                          \/ n % 4 = 3 /\ pads >= 1
              byte(j) ==
                  LET bit == 8 * (j - 1)
                      k == (bit \div 6) + 1
                      c3 == IF k + 2 <= n THEN s[k + 2] ELSE 0
                      v == s[k] * 4096 + s[k + 1] * 64 + c3
                  IN  (v \div (2 ^ (10 - (bit % 6)))) % 256
          IN  IF ~complete THEN DecodeError
              ELSE [ok |-> TRUE, bytes |-> [j \in 1..((n * 6) \div 8) |-> byte(j)]]
        : s \in {str} })

urlsafe_b64decode(str) ==
    The({ IF ~r.ok THEN DecodeError
          ELSE IF \E k \in 1..Len(r.bytes) : r.bytes[k] >= 128 THEN DecodeError
          ELSE [ok |-> TRUE, url |-> r.bytes]
        : r \in {a2b_base64(str)} })

(***************************************************************************)
(* hmac.new(SECRET_KEY, msg, sha256).hexdigest()[:4]: a keyed deterministic *)
(* digest of the message, rendered as four lowercase hex characters.  The  *)
(* digest is abstracted to a 16-bit keyed polynomial hash.                 *)
(***************************************************************************)
SECRET_KEY == 40503

KeyedDigest(message, key) ==
    The({ LET H[i \in 0..Len(msg)] ==
                  IF i = 0 THEN key ELSE (H[i - 1] * 33 + msg[i] + 1) % 65536
          IN  H[Len(msg)]
        : msg \in {message} })

\* a hex digit as a character of the code: '0'..'9' are 52..61, 'a'..'f' are 26..31
HexChar(d) == IF d < 10 THEN 52 + d ELSE 26 + (d - 10)

hmac_hexdigest4(msg) ==
    The({ << HexChar(h \div 4096), HexChar((h \div 256) % 16),
             HexChar((h \div 16) % 16), HexChar(h % 16) >>
        : h \in {KeyedDigest(msg, SECRET_KEY)} })

(***************************************************************************)
(* ShortLink.generate_short_code / ShortLink.decode_short_code             *)
(***************************************************************************)
generate_short_code(original_url) ==
    The({ encoded_url \o hmac_hexdigest4(encoded_url)
        : encoded_url \in {rstrip_pad(urlsafe_b64encode(original_url))} })

\* decode_short_code without the signature comparison
decode_short_code_unverified(short_code) ==
    The({ IF Len(code) <= 4 THEN [ok |-> FALSE, err |-> "Short code is invalid"]
          ELSE LET encoded_url == Prefix(code, Len(code) - 4)
                   padding_needed == 4 - (Len(encoded_url) % 4)
                   padded == encoded_url \o [k \in 1..padding_needed |-> PAD]
               IN  urlsafe_b64decode(padded)
        : code \in {short_code} })

\* decode_short_code comparing only the first three characters of the signature
decode_short_code_sig3(short_code) ==
    The({ IF Len(code) <= 4 THEN [ok |-> FALSE, err |-> "Short code is invalid"]
          ELSE LET encoded_url == Prefix(code, Len(code) - 4)
                   signature   == Suffix(code, 4)
                   expected_signature == hmac_hexdigest4(encoded_url)
               IN  IF Prefix(signature, 3) # Prefix(expected_signature, 3)
                   THEN [ok |-> FALSE, err |-> "Signature of short code is invalid"]
                   ELSE LET padding_needed == 4 - (Len(encoded_url) % 4)
                            padded == encoded_url \o [k \in 1..padding_needed |-> PAD]
                        IN  urlsafe_b64decode(padded)
        : code \in {short_code} })

decode_short_code(short_code) ==
    The({ IF Len(code) <= 4 THEN [ok |-> FALSE, err |-> "Short code is invalid"]
          ELSE LET encoded_url == Prefix(code, Len(code) - 4)
                   signature   == Suffix(code, 4)
                   expected_signature == hmac_hexdigest4(encoded_url)
               IN  IF signature # expected_signature
                   THEN [ok |-> FALSE, err |-> "Signature of short code is invalid"]
                   ELSE LET padding_needed == 4 - (Len(encoded_url) % 4)
                            padded == encoded_url \o [k \in 1..padding_needed |-> PAD]
                        IN  urlsafe_b64decode(padded)
        : code \in {short_code} })

(***************************************************************************)
(* ShortLink.canonicalize_url: urlparse, drop query and fragment,          *)
(* urlunparse.  The fragment starts at the first '#', the query at the     *)
(* first '?' before it; what remains is everything before both.            *)
(***************************************************************************)
canonicalize_url(url) ==
    The({ LET cut == {i \in 1..Len(u) : u[i] = 63 \/ u[i] = 35} IN
          IF cut = {} THEN u ELSE Prefix(u, Min(cut) - 1)
        : u \in {url} })

(***************************************************************************)
(* ShortLink.is_valid_url: empty or missing is invalid; otherwise Django's *)
(* URLValidator decides (abstracted: a scheme "http://" and a host).       *)
(***************************************************************************)
is_valid_url(url) ==
    IF Len(url) = 0 THEN FALSE
    ELSE Len(url) > Len(HTTP_PREFIX) /\ Prefix(url, Len(HTTP_PREFIX)) = HTTP_PREFIX

(***************************************************************************)
(* ShortLink.compress_url / decompress_url: zlib + base64; the compressed  *)
(* form is a different string from which the URL is recovered.             *)
(***************************************************************************)
ZLIB_HEADER == <<120, 156>>

compress_url(url) == urlsafe_b64encode(ZLIB_HEADER \o url)

decompress_url(compressed_url) ==
    LET r == a2b_base64(compressed_url) IN
    IF ~r.ok \/ Len(r.bytes) < 2 \/ Prefix(r.bytes, 2) # ZLIB_HEADER
    THEN [ok |-> FALSE]
    ELSE [ok |-> TRUE, url |-> SubSeq(r.bytes, 3, Len(r.bytes))]

(***************************************************************************)
(* Maps with a dynamic domain (Redis hashes, cache namespaces, bags).      *)
(***************************************************************************)
EmptyMap == [x \in {} |-> 0]
Get(f, k, d) == IF k \in DOMAIN f THEN f[k] ELSE d
Put(f, k, v) == [x \in (DOMAIN f) \cup {k} |-> IF x = k THEN v ELSE f[x]]
Del(f, k) == [x \in (DOMAIN f) \ {k} |-> f[x]]
Incr(f, k) == Put(f, k, Get(f, k, 0) + 1)

(***************************************************************************)
(* Inputs of the requests and the fixed tables.                            *)
(***************************************************************************)
IP_A == "10.0.0.1"
IP_B == "10.0.0.2"
Ips == {IP_A, IP_B}

Campaigns == {1, 2}                  \* ids of the Campaign rows
CampaignInputs == {0, 1, 2, 3}       \* 0: campaign_id missing, 3: no such row
ShortenUrls == {URL_NONE, URL_BAD, URL_P, URL_PQ}

\* a code whose signature segment was altered, and one too short to carry one
ForgedCode == Prefix(generate_short_code(URL_Y), Len(generate_short_code(URL_Y)) - 1) \o <<62>>
ShortCode == <<26, 27, 28>>
RedirectCodes == {generate_short_code(URL_P), generate_short_code(URL_PQ),
                  generate_short_code(URL_Y), ForgedCode, ShortCode}

\* names defined by core/settings.py that the views read
SettingsNames == {"SECRET_KEY", "CACHES", "ALLOWED_DOMAINS", "DEFAULT_DOMAIN"}

REDIS_CLICK_KEY == "shortlink_click_count"    \* tasks.py module constant
DEFAULT_ENV_CLICK_KEY == "click_count"        \* os.getenv default in count_log_click
RedisKeys == {REDIS_CLICK_KEY, DEFAULT_ENV_CLICK_KEY}

RESOLVE_TIMEOUT == 1200
VERDICT_TIMEOUT == 900
WARM_TIMEOUT == 86400                         \* 3600*24 in cache_popular_urls
POPULAR_CLICKS == 30                          \* click_count__gte=30

\* The accumulator is a hash of an external Redis database: clicks logged
\* before the period under study may be pending in it (decoding a code needs
\* no Link row, so a URL can collect clicks before a Link for it exists)
EmptyRedis == [k \in {REDIS_CLICK_KEY, DEFAULT_ENV_CLICK_KEY} |-> EmptyMap]
InitialRedis ==
    { EmptyRedis,
      [EmptyRedis EXCEPT ![REDIS_CLICK_KEY] =
          Put(EmptyMap, compress_url(URL_P), POPULAR_CLICKS - 1)] }

\* BlockedIp tables the administrator may have set up (ip_address is unique)
BlockTables ==
    { {},
      { [ip_address |-> IP_A, is_active |-> TRUE,
         is_blocked_for_all_url |-> TRUE, blocked_links |-> {}] },
      { [ip_address |-> IP_A, is_active |-> TRUE,
         is_blocked_for_all_url |-> FALSE, blocked_links |-> {URL_P}] },
      { [ip_address |-> IP_A, is_active |-> FALSE,
         is_blocked_for_all_url |-> TRUE, blocked_links |-> {}] } }

EmptyCache == [short_link |-> EmptyMap, blocked_ip_all |-> EmptyMap,
               blocked_ip_link |-> EmptyMap]

\* Fast Cache is an external Redis database that outlives the server process:
\* abuse verdicts may already be present when the process starts
InitialCaches ==
    { EmptyCache,
      [EmptyCache EXCEPT !.blocked_ip_all =
          Put(EmptyMap, IP_A, [value |-> TRUE, timeout |-> VERDICT_TIMEOUT])],
      [EmptyCache EXCEPT !.blocked_ip_link =
          Put(EmptyMap, <<IP_A, URL_P>>, [value |-> TRUE, timeout |-> VERDICT_TIMEOUT])] }

VARIABLES
    links,        \* ShortLink rows, in insertion order
    blocked_ips,  \* BlockedIp rows
    cache,        \* Django cache: short_link_*, blocked_ip_all_*, blocked_ip_link_*
    redis,        \* redis_client: hash name -> (field -> count)
    env_click_key,\* value of the REDIS_CLICK_KEY environment variable ("" if unset)
    queue,        \* enqueued log_click tasks: [url, ua] -> number pending
    clicklog,     \* ClickLog rows: original_url -> number of rows
    sreq,         \* shorten requests in progress, one per slot
    rresp,        \* response of the last redirect request
    nRedirect,    \* redirect requests served
    cpc,          \* count_log_click: "idle" or "txn" (inside the transaction)
    click_data,   \* count_log_click: the hash read by hgetall
    nRuns,        \* count_log_click runs started
    count_ret,    \* count_log_click: value returned by the last run ("" before the first)
    window,       \* history: url -> log_click increments since the last completed run
    overlap,      \* history: a log_click ran while the current run was in progress
    hincr,        \* history: field -> hincrby calls made by log_click
    drained,      \* history: field -> increments applied by completed runs
    codec         \* a URL given to generate_short_code, the code, and what decoding gives

vars == << links, blocked_ips, cache, redis, env_click_key, queue, clicklog, sreq,
           rresp, nRedirect, cpc, click_data, nRuns, count_ret, window, overlap,
           hincr, drained, codec >>

shortenVars == << links, sreq >>
redirectVars == << cache, queue, rresp, nRedirect >>
clickVars == << redis, clicklog, window, overlap, hincr, drained >>
countVars == << cpc, click_data, nRuns, count_ret >>

Reqs == 1..MaxShorten

IdleReq == [pc |-> "idle", url |-> <<>>, campaign |-> 0, link |-> 0,
            generated_code |-> <<>>, status |-> 0, short_url |-> <<>>]

NoResp == [status |-> 0, location |-> <<>>, ip |-> "", code |-> <<>>, db_queries |-> 0]

\* URLs given to the codec: "http://a.io/" followed by up to MaxTail characters
\* of 'p', '/', '?'
URL_ROOT == <<104,116,116,112,58,47,47,97,46,105,111,47>>          \* "http://a.io/"
UrlChars == {112, 47, 63}
Tails == UNION { [1..n -> UrlChars] : n \in 0..MaxTail }
CodecUrls == { URL_ROOT \o t : t \in Tails }

NoCodec == [pc |-> "none", url |-> <<>>, code |-> <<>>, tampered |-> FALSE,
            decoded |-> [ok |-> FALSE, err |-> ""]]
CodecInputs == { [NoCodec EXCEPT !.pc = "url", !.url = u] : u \in CodecUrls }

Init ==
    /\ codec \in {NoCodec} \cup CodecInputs
    /\ links = <<>>
    /\ blocked_ips \in BlockTables
    /\ cache \in InitialCaches
    /\ redis \in InitialRedis
    /\ env_click_key \in {"", REDIS_CLICK_KEY}
    /\ queue = EmptyMap
    /\ clicklog = EmptyMap
    /\ sreq = [r \in Reqs |-> IdleReq]
    /\ rresp = NoResp
    /\ nRedirect = 0
    /\ cpc = "idle"
    /\ click_data = EmptyMap
    /\ nRuns = 0
    /\ count_ret = ""
    /\ window = EmptyMap
    /\ overlap = FALSE
    /\ hincr = EmptyMap
    /\ drained = EmptyMap

(***************************************************************************)
(* BlockedIp.is_blocked_ip(ip, original_url).  Result "True" / "False", or *)
(* "TypeError": .exists() yields a bool, and subscripting it raises.       *)
(* The returned cache is the cache after the call, queries the number of   *)
(* Durable Store queries the call made.                                    *)
(***************************************************************************)
\* is_blocked_ip without the lookup of the global verdict
is_blocked_ip_skips_global(c, table, ip, original_url) ==
    IF Get(c.blocked_ip_link, <<ip, original_url>>, [value |-> FALSE]).value
    THEN [result |-> "True", cache |-> c, queries |-> 0]
    ELSE LET blocked_ip == \E e \in table : e.ip_address = ip /\ e.is_active IN
         IF ~blocked_ip THEN [result |-> "False", cache |-> c, queries |-> 1]
         ELSE [result |-> "TypeError", cache |-> c, queries |-> 1]

\* is_blocked_ip that also caches the not-blocked verdict
is_blocked_ip_caches_negative(c, table, ip, original_url) ==
    IF Get(c.blocked_ip_all, ip, [value |-> FALSE]).value
    THEN [result |-> "True", cache |-> c, queries |-> 0]
    ELSE IF Get(c.blocked_ip_link, <<ip, original_url>>, [value |-> FALSE]).value
    THEN [result |-> "True", cache |-> c, queries |-> 0]
    ELSE LET blocked_ip == \E e \in table : e.ip_address = ip /\ e.is_active IN
         IF ~blocked_ip
         THEN [result |-> "False",
               cache |-> [c EXCEPT !.blocked_ip_all =
                            Put(@, ip, [value |-> FALSE, timeout |-> VERDICT_TIMEOUT])],
               queries |-> 1]
         ELSE [result |-> "TypeError", cache |-> c, queries |-> 1]

is_blocked_ip(c, table, ip, original_url) ==
    IF Get(c.blocked_ip_all, ip, [value |-> FALSE]).value
    THEN [result |-> "True", cache |-> c, queries |-> 0]
    ELSE IF Get(c.blocked_ip_link, <<ip, original_url>>, [value |-> FALSE]).value
    THEN [result |-> "True", cache |-> c, queries |-> 0]
    ELSE \* BlockedIp.objects.filter(ip_address=ip, is_active=True).exists()
         LET blocked_ip == \E e \in table : e.ip_address = ip /\ e.is_active IN
         IF ~blocked_ip THEN [result |-> "False", cache |-> c, queries |-> 1]
         ELSE \* blocked_ip["is_blocked_for_all_url"] on a bool
              [result |-> "TypeError", cache |-> c, queries |-> 1]

(***************************************************************************)
(* RedirectView.get: the response, the cache after the request and the     *)
(* log_click tasks it enqueued.  An exception other than ValueError is not *)
(* handled by the view and becomes a 500 response.  db_queries counts the  *)
(* Durable Store queries made on the request path.                         *)
(***************************************************************************)
Response(st, loc, c, tasks) ==
    [status |-> st, location |-> loc, cache |-> c, enqueued |-> tasks]

\* return Response({"status": "blocked"}, status=403)
Forbidden_logs_click(c, url, ua) == Response(403, <<>>, c, {[url |-> url, ua |-> ua]})

Forbidden(c, url, ua) == Response(403, <<>>, c, {})

WithQueries(resp, n) ==
    [status |-> resp.status, location |-> resp.location, cache |-> resp.cache,
     enqueued |-> resp.enqueued, db_queries |-> n]

RedirectView_get(c, table, ip, short_code, ua) ==
    LET cached == Get(c.short_link, short_code, [value |-> <<>>]) IN
    IF cached.value # <<>> THEN
        LET cached_url == cached.value
            b == is_blocked_ip(c, table, ip, cached_url) IN
        WithQueries(
            IF b.result = "True" THEN Forbidden(b.cache, cached_url, ua)
            ELSE IF b.result = "TypeError" THEN Response(500, <<>>, b.cache, {})
            ELSE Response(301, cached_url, b.cache, {[url |-> cached_url, ua |-> ua]}),
            b.queries)
    ELSE
        LET d == decode_short_code(short_code) IN
        IF ~d.ok THEN WithQueries(Response(400, <<>>, c, {}), 0)
        ELSE LET original_url == d.url
                 b == is_blocked_ip(c, table, ip, original_url) IN
             WithQueries(
                 IF b.result = "True" THEN Forbidden(b.cache, original_url, ua)
                 ELSE IF b.result = "TypeError" THEN Response(500, <<>>, b.cache, {})
                 ELSE Response(301, original_url,
                               [b.cache EXCEPT !.short_link =
                                   Put(@, short_code, [value |-> original_url,
                                                       timeout |-> RESOLVE_TIMEOUT])],
                               {[url |-> original_url, ua |-> ua]}),
                 b.queries)

Redirect(ip, short_code, ua) ==
    /\ nRedirect < MaxRedirect
    /\ LET r == RedirectView_get(cache, blocked_ips, ip, short_code, ua) IN
       /\ cache' = r.cache
       /\ queue' = IF r.enqueued = {} THEN queue
                   ELSE Incr(queue, CHOOSE t \in r.enqueued : TRUE)
       /\ rresp' = [status |-> r.status, location |-> r.location,
                    ip |-> ip, code |-> short_code, db_queries |-> r.db_queries]
    /\ nRedirect' = nRedirect + 1
    /\ UNCHANGED << links, blocked_ips, redis, env_click_key, clicklog, sreq,
                    cpc, click_data, nRuns, window, overlap, hincr, drained, count_ret, codec >>

(***************************************************************************)
(* RedirectView.get when the broker cannot be reached: log_click.delay     *)
(* raises (kombu OperationalError), which the view does not handle; on the *)
(* cache-miss path the cache.set before it has been done.                  *)
(***************************************************************************)
RedirectView_get_broker_down(c, table, ip, short_code, ua) ==
    LET r == RedirectView_get(c, table, ip, short_code, ua) IN
    IF r.enqueued = {} THEN r
    ELSE [r EXCEPT !.status = 500, !.location = <<>>, !.enqueued = {}]

RedirectBrokerDown(ip, short_code, ua) ==
    /\ nRedirect < MaxRedirect
    /\ LET r == RedirectView_get_broker_down(cache, blocked_ips, ip, short_code, ua) IN
       /\ cache' = r.cache
       /\ rresp' = [status |-> r.status, location |-> r.location,
                    ip |-> ip, code |-> short_code, db_queries |-> r.db_queries]
    /\ nRedirect' = nRedirect + 1
    /\ UNCHANGED << links, blocked_ips, redis, env_click_key, queue, clicklog, sreq,
                    cpc, click_data, nRuns, count_ret, window, overlap, hincr,
                    drained, codec >>

(***************************************************************************)
(* Fast Cache drops an entry: its lifetime ran out or it was invalidated.  *)
(***************************************************************************)
CacheExpire ==
    /\ \/ \E k \in DOMAIN cache.short_link :
             cache' = [cache EXCEPT !.short_link = Del(@, k)]
       \/ \E k \in DOMAIN cache.blocked_ip_all :
             cache' = [cache EXCEPT !.blocked_ip_all = Del(@, k)]
       \/ \E k \in DOMAIN cache.blocked_ip_link :
             cache' = [cache EXCEPT !.blocked_ip_link = Del(@, k)]
    /\ UNCHANGED << links, blocked_ips, redis, env_click_key, queue, clicklog, sreq,
                    rresp, nRedirect, cpc, click_data, nRuns, window, overlap,
                    hincr, drained, count_ret, codec >>

(***************************************************************************)
(* log_click(original_url, request_data_json), run by a Celery worker.     *)
(* Without a User-Agent header filtered_data["user_agent"] is None and     *)
(* None[:255] raises before the ClickLog row is created.                   *)
(***************************************************************************)
LogClick(t) ==
    /\ t \in DOMAIN queue
    /\ queue' = IF queue[t] = 1 THEN Del(queue, t) ELSE Put(queue, t, queue[t] - 1)
    /\ IF ~t.ua
       THEN UNCHANGED << clicklog, redis, window, overlap, hincr >>
       ELSE LET compressed_url == compress_url(t.url) IN
            /\ clicklog' = Incr(clicklog, t.url)
            /\ redis' = [redis EXCEPT ![REDIS_CLICK_KEY] = Incr(@, compressed_url)]
            /\ window' = Incr(window, t.url)
            /\ overlap' = (overlap \/ cpc = "txn")
            /\ hincr' = Incr(hincr, compressed_url)
    /\ UNCHANGED << links, blocked_ips, cache, env_click_key, sreq, rresp, nRedirect,
                    cpc, click_data, nRuns, drained, count_ret, codec >>

(***************************************************************************)
(* log_click runs in which a call raises.                                  *)
(*   "create":  ClickLog.objects.create raises a database error: the task  *)
(*              fails before the counter is incremented.                   *)
(*   "hincrby": the row is written, hincrby raises redis.RedisError, the   *)
(*              task returns False.                                        *)
(***************************************************************************)
LogClickFaults == {"create", "hincrby"}

LogClickFault(t, fault) ==
    /\ t \in DOMAIN queue
    /\ t.ua
    /\ queue' = IF queue[t] = 1 THEN Del(queue, t) ELSE Put(queue, t, queue[t] - 1)
    /\ clicklog' = IF fault = "hincrby" THEN Incr(clicklog, t.url) ELSE clicklog
    /\ UNCHANGED << links, blocked_ips, cache, redis, env_click_key, sreq, rresp,
                    nRedirect, cpc, click_data, nRuns, count_ret, window, overlap,
                    hincr, drained, codec >>

(***************************************************************************)
(* count_log_click, run by Celery beat (one run at a time).                *)
(*   CountRead:   hgetall on the hash named by the environment; an empty   *)
(*                hash ends the run with False.                            *)
(*   CountCommit: the transaction: one UPDATE per field, then the delete   *)
(*                of the hash, then the commit.                            *)
(***************************************************************************)
redis_click_key == IF env_click_key = "" THEN DEFAULT_ENV_CLICK_KEY ELSE env_click_key

CountRead ==
    /\ cpc = "idle"
    /\ nRuns < MaxRuns
    /\ nRuns' = nRuns + 1
    /\ LET data == redis[redis_click_key] IN
       IF DOMAIN data = {}
       THEN /\ UNCHANGED << cpc, click_data >>
            /\ count_ret' = "False"
            /\ window' = EmptyMap
       ELSE /\ cpc' = "txn"
            /\ click_data' = data
            /\ UNCHANGED << window, count_ret >>
    /\ overlap' = FALSE
    /\ UNCHANGED << links, blocked_ips, cache, redis, env_click_key, queue, clicklog,
                    sreq, rresp, nRedirect, hincr, drained, codec >>

\* the pending count the UPDATE statements of one run add to a row
PendingFor(data, url) ==
    LET f == compress_url(url) IN
    IF url # <<>> /\ f \in DOMAIN data /\ decompress_url(f).ok /\ decompress_url(f).url = url
    THEN data[f] ELSE 0

\* an UPDATE that stores the pending count instead of adding it
ApplyClickData_overwrites(rows, data) ==
    [i \in 1..Len(rows) |->
        [rows[i] EXCEPT !.click_count = PendingFor(data, rows[i].original_url)]]

ApplyClickData(rows, data) ==
    [i \in 1..Len(rows) |->
        [rows[i] EXCEPT !.click_count = @ + PendingFor(data, rows[i].original_url)]]

CountCommit ==
    /\ cpc = "txn"
    /\ IF \E f \in DOMAIN click_data : ~decompress_url(f).ok
       THEN \* decompress_url raises: rollback, `except Exception`
            /\ count_ret' = "False"
            /\ UNCHANGED << links, redis, drained >>
       ELSE /\ count_ret' = "True"
            /\ links' = ApplyClickData(links, click_data)
            /\ redis' = [redis EXCEPT ![redis_click_key] = EmptyMap]
            /\ drained' = [f \in (DOMAIN drained) \cup (DOMAIN click_data) |->
                              Get(drained, f, 0) + Get(click_data, f, 0)]
    /\ cpc' = "idle"
    /\ click_data' = EmptyMap
    /\ window' = EmptyMap
    /\ overlap' = FALSE
    /\ UNCHANGED << blocked_ips, cache, env_click_key, queue, clicklog, sreq, rresp,
                    nRedirect, nRuns, hincr, codec >>

(***************************************************************************)
(* count_log_click runs in which a call raises.  Both except clauses       *)
(* return False.                                                           *)
(*   CountReadError: hgetall raises redis.RedisError.                      *)
(*   CountAbort:     inside `with transaction.atomic()`: an UPDATE raises  *)
(*                   or the delete of the hash raises (the block is left   *)
(*                   by the exception and rolled back), or the commit at   *)
(*                   the exit of the block raises (the hash was deleted    *)
(*                   by then).                                             *)
(***************************************************************************)
CountFaults == {"update", "delete", "commit"}

CountReadError ==
    /\ cpc = "idle"
    /\ nRuns < MaxRuns
    /\ nRuns' = nRuns + 1
    /\ count_ret' = "False"
    /\ UNCHANGED << links, blocked_ips, cache, redis, env_click_key, queue, clicklog,
                    sreq, rresp, nRedirect, cpc, click_data, window, overlap,
                    hincr, drained, codec >>

CountAbort(fault) ==
    /\ cpc = "txn"
    /\ redis' = IF fault = "commit"
                THEN [redis EXCEPT ![redis_click_key] = EmptyMap]
                ELSE redis
    /\ count_ret' = "False"
    /\ cpc' = "idle"
    /\ click_data' = EmptyMap
    /\ UNCHANGED << links, blocked_ips, cache, env_click_key, queue, clicklog, sreq,
                    rresp, nRedirect, nRuns, window, overlap, hincr, drained, codec >>

(***************************************************************************)
(* The codec on its own: generate_short_code applied to a URL, a change of *)
(* one character of the signature segment of the code, decode_short_code   *)
(* applied to the code.                                                    *)
(***************************************************************************)
CodeChars == 0..63

CodecGenerate ==
    /\ codec.pc = "url"
    /\ codec' = [codec EXCEPT !.pc = "code", !.code = generate_short_code(codec.url)]
    /\ UNCHANGED << links, blocked_ips, cache, redis, env_click_key, queue, clicklog,
                    sreq, rresp, nRedirect, cpc, click_data, nRuns, count_ret, window,
                    overlap, hincr, drained >>

CodecTamper(pos, ch) ==
    /\ codec.pc = "code"
    /\ ~codec.tampered
    /\ codec.code[Len(codec.code) - 4 + pos] # ch
    /\ codec' = [codec EXCEPT !.tampered = TRUE,
                              !.code = [@ EXCEPT ![Len(codec.code) - 4 + pos] = ch]]
    /\ UNCHANGED << links, blocked_ips, cache, redis, env_click_key, queue, clicklog,
                    sreq, rresp, nRedirect, cpc, click_data, nRuns, count_ret, window,
                    overlap, hincr, drained >>

CodecDecode ==
    /\ codec.pc = "code"
    /\ codec' = [codec EXCEPT !.pc = "decoded", !.decoded = decode_short_code(codec.code)]
    /\ UNCHANGED << links, blocked_ips, cache, redis, env_click_key, queue, clicklog,
                    sreq, rresp, nRedirect, cpc, click_data, nRuns, count_ret, window,
                    overlap, hincr, drained >>

(***************************************************************************)
(* cache_popular_urls, run by Celery beat: every Link with at least        *)
(* POPULAR_CLICKS clicks gets short_link_<short_code> = original_url.      *)
(***************************************************************************)
WarmEntries(rows, c) ==
    [code \in (DOMAIN c) \cup {rows[i].short_code :
                                 i \in {j \in 1..Len(rows) : rows[j].click_count >= POPULAR_CLICKS}} |->
        IF \E i \in 1..Len(rows) : rows[i].click_count >= POPULAR_CLICKS
                                    /\ rows[i].short_code = code
        THEN \* the last row of the result set that carries the code wins
             LET last == CHOOSE i \in 1..Len(rows) :
                            /\ rows[i].click_count >= POPULAR_CLICKS /\ rows[i].short_code = code
                            /\ \A j \in (i + 1)..Len(rows) :
                                  ~(rows[j].click_count >= POPULAR_CLICKS
                                    /\ rows[j].short_code = code)
             IN [value |-> rows[last].original_url, timeout |-> WARM_TIMEOUT]
        ELSE c[code]]

cache_popular_urls ==
    /\ cache' = [cache EXCEPT !.short_link = WarmEntries(links, @)]
    /\ UNCHANGED << links, blocked_ips, redis, env_click_key, queue, clicklog, sreq,
                    rresp, nRedirect, cpc, click_data, nRuns, window, overlap,
                    hincr, drained, count_ret, codec >>

(***************************************************************************)
(* ShortenURLAPI.post, one request per slot r.                             *)
(*   ShortenBegin:      validation, campaign lookup, existing-link lookup  *)
(*   ShortenCreate:     ShortLink.objects.create (save() derives the code  *)
(*                      from the stored original_url), then the first      *)
(*                      generate_short_code(original_url)                  *)
(*   ShortenCheck:      the while condition: a row holds generated_code?   *)
(*   ShortenRegenerate: the loop body                                      *)
(*   ShortenSave:       short_link.short_code = generated_code; save()     *)
(***************************************************************************)
NewRow(url, campaign) ==
    [original_url |-> url, campaign |-> campaign,
     short_code |-> generate_short_code(url), click_count |-> 0, status |-> "active"]

ExistingLink(rows, canonical_url, campaign) ==
    IF \E i \in 1..Len(rows) : rows[i].original_url = canonical_url /\ rows[i].campaign = campaign
    THEN CHOOSE i \in 1..Len(rows) :
            /\ rows[i].original_url = canonical_url /\ rows[i].campaign = campaign
            /\ \A j \in 1..(i - 1) :
                  ~(rows[j].original_url = canonical_url /\ rows[j].campaign = campaign)
    ELSE 0

\* the response of the request when it ends in ShortenBegin, or status 0 when it goes on
ShortenEarlyResponse(rows, original_url, campaign_id) ==
    IF original_url = <<>> THEN [status |-> 400, short_url |-> <<>>]
    ELSE IF ~is_valid_url(original_url) THEN [status |-> 400, short_url |-> <<>>]
    ELSE IF campaign_id = 0 THEN [status |-> 400, short_url |-> <<>>]
    ELSE IF campaign_id \notin Campaigns THEN [status |-> 400, short_url |-> <<>>]
    ELSE LET existing_link == ExistingLink(rows, canonicalize_url(original_url), campaign_id) IN
         IF existing_link # 0
         THEN IF "DOMAINS" \in SettingsNames
              THEN [status |-> 200, short_url |-> rows[existing_link].short_code]
              ELSE \* settings.DOMAINS raises AttributeError
                   [status |-> 500, short_url |-> <<>>]
         ELSE [status |-> 0, short_url |-> <<>>]

ShortenBegin(r, original_url, campaign_id) ==
    /\ sreq[r].pc = "idle"
    /\ \A q \in 1..(r - 1) : sreq[q].pc # "idle"
    /\ LET resp == ShortenEarlyResponse(links, original_url, campaign_id) IN
       sreq' = [sreq EXCEPT ![r] =
                  [@ EXCEPT !.pc = IF resp.status = 0 THEN "create" ELSE "done",
                            !.url = original_url, !.campaign = campaign_id,
                            !.status = resp.status, !.short_url = resp.short_url]]
    /\ UNCHANGED << links, blocked_ips, cache, redis, env_click_key, queue, clicklog,
                    rresp, nRedirect, cpc, click_data, nRuns, window, overlap,
                    hincr, drained, count_ret, codec >>

ShortenCreate(r) ==
    /\ sreq[r].pc = "create"
    /\ links' = Append(links, NewRow(canonicalize_url(sreq[r].url), sreq[r].campaign))
    /\ sreq' = [sreq EXCEPT ![r] =
                  [@ EXCEPT !.pc = "check", !.link = Len(links) + 1,
                            !.generated_code = generate_short_code(sreq[r].url)]]
    /\ UNCHANGED << blocked_ips, cache, redis, env_click_key, queue, clicklog,
                    rresp, nRedirect, cpc, click_data, nRuns, window, overlap,
                    hincr, drained, count_ret, codec >>

CodeExists(rows, code) == \E i \in 1..Len(rows) : rows[i].short_code = code

ShortenCheck(r) ==
    /\ sreq[r].pc = "check"
    /\ sreq' = [sreq EXCEPT ![r].pc =
                  IF CodeExists(links, sreq[r].generated_code) THEN "regen" ELSE "save"]
    /\ UNCHANGED << links, blocked_ips, cache, redis, env_click_key, queue, clicklog,
                    rresp, nRedirect, cpc, click_data, nRuns, window, overlap,
                    hincr, drained, count_ret, codec >>

ShortenRegenerate(r) ==
    /\ sreq[r].pc = "regen"
    /\ sreq' = [sreq EXCEPT ![r] =
                  [@ EXCEPT !.pc = "check",
                            !.generated_code = generate_short_code(sreq[r].url)]]
    /\ UNCHANGED << links, blocked_ips, cache, redis, env_click_key, queue, clicklog,
                    rresp, nRedirect, cpc, click_data, nRuns, window, overlap,
                    hincr, drained, count_ret, codec >>

\* save() writes every field of the in-memory instance created by ShortenCreate
ShortenSave(r) ==
    /\ sreq[r].pc = "save"
    /\ links' = [links EXCEPT ![sreq[r].link] =
                   [NewRow(canonicalize_url(sreq[r].url), sreq[r].campaign)
                      EXCEPT !.short_code = sreq[r].generated_code]]
    /\ sreq' = [sreq EXCEPT ![r] =
                  [@ EXCEPT !.pc = "done", !.status = 201,
                            !.short_url = sreq[r].generated_code]]
    /\ UNCHANGED << blocked_ips, cache, redis, env_click_key, queue, clicklog,
                    rresp, nRedirect, cpc, click_data, nRuns, window, overlap,
                    hincr, drained, count_ret, codec >>

(***************************************************************************)
(* ShortLinkAdmin.make_active / make_inactive / make_blocked: the admin    *)
(* action writes one status to the selected rows.                          *)
(***************************************************************************)
STATUS_CHOICES == {"active", "blocked", "inactive"}

AdminSetStatus(selected, st) ==
    /\ selected # {}
    /\ selected \subseteq 1..Len(links)
    /\ links' = [i \in 1..Len(links) |->
                    IF i \in selected THEN [links[i] EXCEPT !.status = st] ELSE links[i]]
    /\ UNCHANGED << blocked_ips, cache, redis, env_click_key, queue, clicklog, sreq,
                    rresp, nRedirect, cpc, click_data, nRuns, count_ret, window,
                    overlap, hincr, drained, codec >>

ShortenStep(r) ==
    \/ \E u \in ShortenUrls, c \in CampaignInputs : ShortenBegin(r, u, c)
    \/ ShortenCreate(r)
    \/ ShortenCheck(r)
    \/ ShortenRegenerate(r)
    \/ ShortenSave(r)

Next ==
    \/ \E r \in Reqs, u \in ShortenUrls, c \in CampaignInputs : ShortenBegin(r, u, c)
    \/ \E r \in Reqs : ShortenCreate(r)
    \/ \E r \in Reqs : ShortenCheck(r)
    \/ \E r \in Reqs : ShortenRegenerate(r)
    \/ \E r \in Reqs : ShortenSave(r)
    \/ \E ip \in Ips, code \in RedirectCodes, ua \in BOOLEAN : Redirect(ip, code, ua)
    \/ \E ip \in Ips, code \in RedirectCodes, ua \in BOOLEAN :
          RedirectBrokerDown(ip, code, ua)
    \/ CacheExpire
    \/ \E t \in DOMAIN queue : LogClick(t)
    \/ \E t \in DOMAIN queue, fault \in LogClickFaults : LogClickFault(t, fault)
    \/ CountRead
    \/ CountCommit
    \/ CountReadError
    \/ \E fault \in CountFaults : CountAbort(fault)
    \/ cache_popular_urls
    \/ CodecGenerate
    \/ \E pos \in 1..4, ch \in CodeChars : CodecTamper(pos, ch)
    \/ CodecDecode
    \/ \E selected \in SUBSET (1..Len(links)), st \in STATUS_CHOICES :
          AdminSetStatus(selected, st)

Spec == Init /\ [][Next]_vars

(***************************************************************************)
(* The shorten endpoint on its own: no block list, an empty cache.         *)
(***************************************************************************)
InitShorten ==
    /\ Init
    /\ codec = NoCodec
    /\ redis = EmptyRedis
    /\ blocked_ips = {}
    /\ cache = EmptyCache
    /\ env_click_key = ""

NextShorten ==
    \/ \E r \in Reqs, u \in ShortenUrls, c \in CampaignInputs : ShortenBegin(r, u, c)
    \/ \E r \in Reqs : ShortenCreate(r)
    \/ \E r \in Reqs : ShortenCheck(r)
    \/ \E r \in Reqs : ShortenRegenerate(r)
    \/ \E r \in Reqs : ShortenSave(r)

SpecShorten == InitShorten /\ [][NextShorten]_vars

\* every request that can take a step eventually takes one
FairShorten == SpecShorten /\ \A r \in Reqs : WF_vars(ShortenStep(r))

(***************************************************************************)
(* The redirect endpoint with the cache's expiry and the click workers.    *)
(***************************************************************************)
InitRedirect ==
    /\ Init
    /\ codec = NoCodec
    /\ redis = EmptyRedis
    /\ env_click_key = ""

NextRedirect ==
    \/ \E ip \in Ips, code \in RedirectCodes, ua \in BOOLEAN : Redirect(ip, code, ua)
    \/ CacheExpire
    \/ \E t \in DOMAIN queue : LogClick(t)

SpecRedirect == InitRedirect /\ [][NextRedirect]_vars

(***************************************************************************)
(* The click pipeline: links are created, clicked, logged and reconciled.  *)
(***************************************************************************)
InitClicks ==
    /\ Init
    /\ codec = NoCodec
    /\ redis = EmptyRedis
    /\ blocked_ips = {}
    /\ cache = EmptyCache

ClickCodes == {generate_short_code(URL_P), generate_short_code(URL_PQ)}

NextClicks ==
    \/ \E c \in Campaigns : ShortenBegin(1, URL_PQ, c)
    \/ \E r \in Reqs : ShortenCreate(r)
    \/ \E r \in Reqs : ShortenCheck(r)
    \/ \E r \in Reqs : ShortenSave(r)
    \/ \E code \in ClickCodes, ua \in BOOLEAN : Redirect(IP_B, code, ua)
    \/ \E t \in DOMAIN queue : LogClick(t)
    \/ CountRead
    \/ CountCommit

SpecClicks == InitClicks /\ [][NextClicks]_vars

(***************************************************************************)
(* The cache warmer next to the traffic that makes a Link popular: the     *)
(* accumulator names the hash count_log_click reads.                       *)
(***************************************************************************)
InitWarm ==
    /\ Init
    /\ codec = NoCodec
    /\ blocked_ips = {}
    /\ cache = EmptyCache
    /\ env_click_key = REDIS_CLICK_KEY
    /\ redis # EmptyRedis

NextWarm ==
    \/ \E u \in {URL_P, URL_PQ}, c \in Campaigns : ShortenBegin(1, u, c)
    \/ \E r \in Reqs : ShortenCreate(r)
    \/ \E r \in Reqs : ShortenCheck(r)
    \/ \E r \in Reqs : ShortenRegenerate(r)
    \/ \E r \in Reqs : ShortenSave(r)
    \/ \E code \in ClickCodes : Redirect(IP_B, code, TRUE)
    \/ CacheExpire
    \/ \E t \in DOMAIN queue : LogClick(t)
    \/ CountRead
    \/ CountCommit
    \/ cache_popular_urls

SpecWarm == InitWarm /\ [][NextWarm]_vars

(***************************************************************************)
(* The click pipeline with the failures of its calls, next to the cache    *)
(* warmer.                                                                 *)
(***************************************************************************)
InitFaults ==
    /\ Init
    /\ codec = NoCodec
    /\ blocked_ips = {}
    /\ cache = EmptyCache
    /\ env_click_key = REDIS_CLICK_KEY

NextFaults ==
    \/ \E c \in Campaigns : ShortenBegin(1, URL_PQ, c)
    \/ \E r \in Reqs : ShortenCreate(r)
    \/ \E r \in Reqs : ShortenCheck(r)
    \/ \E r \in Reqs : ShortenSave(r)
    \/ \E code \in ClickCodes, ua \in BOOLEAN : Redirect(IP_B, code, ua)
    \/ \E code \in ClickCodes, ua \in BOOLEAN : RedirectBrokerDown(IP_B, code, ua)
    \/ \E t \in DOMAIN queue : LogClick(t)
    \/ \E t \in DOMAIN queue, fault \in LogClickFaults : LogClickFault(t, fault)
    \/ CountRead
    \/ CountCommit
    \/ CountReadError
    \/ \E fault \in CountFaults : CountAbort(fault)
    \/ cache_popular_urls

SpecFaults == InitFaults /\ [][NextFaults]_vars

(***************************************************************************)
(* The codec on a URL drawn from CodecUrls.                                *)
(***************************************************************************)
InitCodec ==
    /\ Init
    /\ codec \in CodecInputs
    /\ blocked_ips = {}
    /\ cache = EmptyCache
    /\ redis = EmptyRedis
    /\ env_click_key = ""

NextCodec ==
    \/ CodecGenerate
    \/ \E pos \in 1..4, ch \in CodeChars : CodecTamper(pos, ch)
    \/ CodecDecode

SpecCodec == InitCodec /\ [][NextCodec]_vars

(***************************************************************************)
(* Redirects next to the Links and their administration: a Link is         *)
(* created, its status is changed in the admin, its code and the code of a *)
(* URL that has no Link are requested.                                     *)
(***************************************************************************)
InitAdmin ==
    /\ Init
    /\ codec = NoCodec
    /\ redis = EmptyRedis
    /\ env_click_key = ""

AdminCodes == {generate_short_code(URL_PQ), generate_short_code(URL_Y)}

NextAdmin ==
    \/ \E c \in Campaigns : ShortenBegin(1, URL_PQ, c)
    \/ \E r \in Reqs : ShortenCreate(r)
    \/ \E r \in Reqs : ShortenCheck(r)
    \/ \E r \in Reqs : ShortenSave(r)
    \/ \E selected \in SUBSET (1..Len(links)), st \in STATUS_CHOICES :
          AdminSetStatus(selected, st)
    \/ \E ip \in Ips, code \in AdminCodes : Redirect(ip, code, TRUE)
    \/ CacheExpire

SpecAdmin == InitAdmin /\ [][NextAdmin]_vars

TypeOK ==
    /\ nRedirect \in 0..MaxRedirect
    /\ nRuns \in 0..MaxRuns
    /\ cpc \in {"idle", "txn"}
    /\ count_ret \in {"", "True", "False"}

(***************************************************************************)
(* Vocabulary of the properties.                                           *)
(***************************************************************************)
\* the step is a redirect request; rresp' is its response
RedirectStep == nRedirect' = nRedirect + 1

\* a count_log_click run ends in this step
RunCompletes ==
    \/ cpc = "txn" /\ cpc' = "idle"
    \/ cpc = "idle" /\ cpc' = "idle" /\ nRuns' = nRuns + 1

\* the code carries no signature or one that differs from the expected one
UndecodableCode(code) ==
    \/ Len(code) <= 4
    \/ Suffix(code, 4) # hmac_hexdigest4(Prefix(code, Len(code) - 4))

\* the destination the resolver finds for a code: the cached one, else the decoded one
Destination(c, code) ==
    IF code \in DOMAIN c.short_link THEN [ok |-> TRUE, url |-> c.short_link[code].value]
    ELSE decode_short_code(code)

GlobalVerdict(c, ip) == Get(c.blocked_ip_all, ip, [value |-> FALSE]).value
LinkVerdict(c, ip, url) == Get(c.blocked_ip_link, <<ip, url>>, [value |-> FALSE]).value

ActiveEntries(ip) == {e \in blocked_ips : e.ip_address = ip /\ e.is_active}

(***************************************************************************)
(* C1: N log_click executions for one URL within one reconciliation window, *)
(* none of them during a run: when the next count_log_click run completes, *)
(* the click_count of every Link for that URL has grown by exactly N.      *)
(***************************************************************************)
C1_ClicksCountedExactly ==
    [][ (RunCompletes /\ ~overlap) =>
          \A i \in 1..Len(links) :
              links'[i].click_count =
                  links[i].click_count + Get(window, links[i].original_url, 0) ]_vars

(***************************************************************************)
(* C2: no accumulator increment is lost or counted twice: every hincrby    *)
(* made by log_click is either among the counts a completed run applied or *)
(* still in the accumulator.                                               *)
(***************************************************************************)
C2_NoIncrementLost ==
    \A f \in DOMAIN hincr :
        hincr[f] = Get(drained, f, 0) + Get(redis[REDIS_CLICK_KEY], f, 0)

(***************************************************************************)
(* C3: a redirect for a code with no cache entry whose decode fails        *)
(* (length <= 4 or signature mismatch) returns 400, leaves the cache as it *)
(* was and enqueues no log_click task.                                     *)
(***************************************************************************)
C3_UndecodableIs400 ==
    [][ (RedirectStep /\ rresp'.code \notin DOMAIN cache.short_link
                      /\ UndecodableCode(rresp'.code)) =>
          /\ rresp'.status = 400
          /\ cache' = cache
          /\ queue' = queue
          /\ clicklog' = clicklog /\ redis' = redis ]_vars

C3_Witness ==
    /\ nRedirect > 0
    /\ rresp.status = 400
    /\ rresp.code = ForgedCode
    /\ rresp.code \notin DOMAIN cache.short_link

(***************************************************************************)
(* C4: whenever the Abuse Guard reports (ip, destination) blocked during a *)
(* redirect, on the cache-hit and on the cache-miss path, the response is  *)
(* 403, no short_link entry is written and no log_click task is enqueued.  *)
(***************************************************************************)
C4_BlockedIs403 ==
    [][ (/\ RedirectStep
         /\ Destination(cache, rresp'.code).ok
         /\ is_blocked_ip(cache, blocked_ips, rresp'.ip,
                          Destination(cache, rresp'.code).url).result = "True") =>
          /\ rresp'.status = 403
          /\ cache'.short_link = cache.short_link
          /\ queue' = queue ]_vars

\* a 403 on the cache-hit path: the entry for the code is in the cache
C4_Witness ==
    /\ rresp.status = 403
    /\ rresp.code \in DOMAIN cache.short_link

(***************************************************************************)
(* C5: while the blocked_ip_all verdict of an IP is in the cache, no       *)
(* redirect from that IP returns 301, and every redirect from it whose     *)
(* code resolves to a URL returns 403.                                     *)
(***************************************************************************)
C5_GlobalVerdictBlocks ==
    [][ (RedirectStep /\ GlobalVerdict(cache, rresp'.ip)) =>
          /\ rresp'.status # 301
          /\ Destination(cache, rresp'.code).ok => rresp'.status = 403 ]_vars

\* the second redirect in a row of a globally blocked IP is refused
C5_Witness ==
    /\ nRedirect = 2
    /\ rresp.status = 403
    /\ GlobalVerdict(cache, rresp.ip)
    /\ rresp.code \notin DOMAIN cache.short_link

(***************************************************************************)
(* C6: for an IP with an active BlockEntry that is not global and blocks X *)
(* but not Y, and no verdict cached, a redirect resolving to X returns 403 *)
(* and a redirect resolving to Y returns a 301 to Y.                       *)
(***************************************************************************)
C6_BlockedForXOnly ==
    [][ (/\ RedirectStep
         /\ Destination(cache, rresp'.code).ok
         /\ ~GlobalVerdict(cache, rresp'.ip)
         /\ ~LinkVerdict(cache, rresp'.ip, Destination(cache, rresp'.code).url)
         /\ \E e \in ActiveEntries(rresp'.ip) :
               ~e.is_blocked_for_all_url /\ URL_P \in e.blocked_links
                                         /\ URL_Y \notin e.blocked_links) =>
          /\ Destination(cache, rresp'.code).url = URL_P => rresp'.status = 403
          /\ Destination(cache, rresp'.code).url = URL_Y =>
                rresp'.status = 301 /\ rresp'.location = URL_Y ]_vars

(***************************************************************************)
(* C7: with neither verdict cached and an active, globally blocking        *)
(* BlockEntry for the IP, is_blocked_ip reports blocked and stores the     *)
(* blocked_ip_all verdict in the cache with a lifetime of 900 seconds.     *)
(***************************************************************************)
C7_GlobalEntryCached ==
    [][ (/\ RedirectStep
         /\ Destination(cache, rresp'.code).ok
         /\ ~GlobalVerdict(cache, rresp'.ip)
         /\ ~LinkVerdict(cache, rresp'.ip, Destination(cache, rresp'.code).url)
         /\ \E e \in ActiveEntries(rresp'.ip) : e.is_blocked_for_all_url) =>
          /\ is_blocked_ip(cache, blocked_ips, rresp'.ip,
                           Destination(cache, rresp'.code).url).result = "True"
          /\ rresp'.status = 403
          /\ Get(cache'.blocked_ip_all, rresp'.ip, [value |-> FALSE, timeout |-> 0])
                = [value |-> TRUE, timeout |-> VERDICT_TIMEOUT] ]_vars

(***************************************************************************)
(* C8: after a successful shorten request for a URL with a query string or *)
(* fragment, the stored original_url is the canonical URL, and the code    *)
(* returned (and stored on the Link) decodes to that canonical URL.        *)
(***************************************************************************)
C8_CodeDecodesToCanonical ==
    \A r \in Reqs :
        (/\ sreq[r].pc = "done" /\ sreq[r].status = 201
         /\ canonicalize_url(sreq[r].url) # sreq[r].url) =>
            /\ links[sreq[r].link].original_url = canonicalize_url(sreq[r].url)
            /\ links[sreq[r].link].short_code = sreq[r].short_url
            /\ decode_short_code(sreq[r].short_url).ok
            /\ decode_short_code(sreq[r].short_url).url = canonicalize_url(sreq[r].url)

(***************************************************************************)
(* C9: a shorten request with a valid URL and an existing campaign, for a  *)
(* pair that has no Link yet, terminates with a 201 response carrying the  *)
(* new Link's short code, whatever Links exist for other campaigns.        *)
(***************************************************************************)
C9_ShortenTerminates ==
    \A r \in Reqs :
        (sreq[r].pc = "create") ~>
            (/\ sreq[r].pc = "done" /\ sreq[r].status = 201
             /\ sreq[r].short_url = links[sreq[r].link].short_code)

(***************************************************************************)
(* C10: a shorten request for a (canonical URL, campaign) pair that has a  *)
(* Link returns 200 with that Link's short code and leaves every Link as   *)
(* it was.                                                                 *)
(***************************************************************************)
C10_ExistingPairIs200 ==
    [][ \A r \in Reqs :
          (/\ sreq[r].pc = "idle" /\ sreq'[r].pc # "idle"
           /\ is_valid_url(sreq'[r].url) /\ sreq'[r].campaign \in Campaigns
           /\ ExistingLink(links, canonicalize_url(sreq'[r].url), sreq'[r].campaign) # 0) =>
             /\ sreq'[r].status = 200
             /\ sreq'[r].short_url =
                  links[ExistingLink(links, canonicalize_url(sreq'[r].url),
                                     sreq'[r].campaign)].short_code
             /\ links' = links ]_vars

(***************************************************************************)
(* C11: once a Link's short_code has been persisted, no later step changes *)
(* it, and no two Link rows ever hold the same short_code.                 *)
(***************************************************************************)
C11_ShortCodeImmutableUnique ==
    [][ /\ \A i \in 1..Len(links) :
              links[i].short_code # <<>> => links'[i].short_code = links[i].short_code
        /\ \A i, j \in 1..Len(links') :
              i # j => links'[i].short_code # links'[j].short_code ]_vars

(***************************************************************************)
(* C12: every short_link entry in the cache (placed by the resolver or by  *)
(* the cache warmer) is for a code that decodes, and decodes to the cached *)
(* destination.                                                            *)
(***************************************************************************)
C12_CacheAgreesWithDecode ==
    \A code \in DOMAIN cache.short_link :
        /\ decode_short_code(code).ok
        /\ decode_short_code(code).url = cache.short_link[code].value

(***************************************************************************)
(* C13: a redirect whose short_link lookup hits and whose IP is not        *)
(* blocked makes no Durable Store query before it responds.                *)
(***************************************************************************)
C13_HitPathNoDurableQuery ==
    [][ (/\ RedirectStep
         /\ rresp'.code \in DOMAIN cache.short_link
         /\ ~GlobalVerdict(cache, rresp'.ip)
         /\ ~LinkVerdict(cache, rresp'.ip, cache.short_link[rresp'.code].value)
         /\ ActiveEntries(rresp'.ip) = {}) =>
          /\ rresp'.status = 301
          /\ rresp'.db_queries = 0 ]_vars

(***************************************************************************)
(* C14: a count_log_click run that fails inside its transaction changes no *)
(* click_count and leaves every increment it read in the accumulator.      *)
(***************************************************************************)
C14_FailedRunKeepsIncrements ==
    [][ (cpc = "txn" /\ cpc' = "idle" /\ count_ret' = "False") =>
          /\ \A i \in 1..Len(links) : links'[i].click_count = links[i].click_count
          /\ \A f \in DOMAIN click_data :
                Get(redis'[redis_click_key], f, 0) >= click_data[f] ]_vars

(***************************************************************************)
(* C15: decode_short_code(generate_short_code(u)) returns exactly u, for   *)
(* every valid URL u and every length of the unpadded payload (residues    *)
(* 0, 2 and 3 modulo 4).                                                   *)
(***************************************************************************)
C15_RoundTrip ==
    (codec.pc = "decoded" /\ ~codec.tampered) =>
        /\ codec.decoded.ok
        /\ codec.decoded.url = codec.url

\* the payload of the decoded code has a length that is a multiple of four:
\* decode_short_code appends four padding characters to it
C15_Witness ==
    /\ codec.pc = "decoded" /\ ~codec.tampered
    /\ codec.decoded.ok
    /\ Len(codec.url) > Len(URL_ROOT)
    /\ (Len(codec.code) - 4) % 4 = 0

(***************************************************************************)
(* C16: a code of generate_short_code with one character of its signature  *)
(* segment replaced by a different one never decodes to a URL:             *)
(* decode_short_code fails with the signature-mismatch error.              *)
(***************************************************************************)
C16_TamperedSignatureRejected ==
    (codec.pc = "decoded" /\ codec.tampered) =>
        /\ ~codec.decoded.ok
        /\ codec.decoded.err = "Signature of short code is invalid"

\* the last signature character of a code was replaced by another hex digit
C16_Witness ==
    /\ codec.pc = "decoded" /\ codec.tampered
    /\ ~codec.decoded.ok
    /\ Prefix(codec.code, Len(codec.code) - 1)
          = Prefix(generate_short_code(codec.url), Len(codec.code) - 1)
    /\ codec.code[Len(codec.code)] \in (26..31) \cup (52..61)

\* the queue after a worker has taken task t from it
Taken(q, t) == IF q[t] = 1 THEN Del(q, t) ELSE Put(q, t, q[t] - 1)

(***************************************************************************)
(* C17: a redirect that returns 301 enqueues one log_click task and every  *)
(* log_click task that has run has added exactly one ClickLog row for its  *)
(* URL, whether the request carried a User-Agent header or not; a redirect *)
(* that returns 400 or 403 enqueues nothing; no redirect writes a row      *)
(* itself.                                                                 *)
(***************************************************************************)
C17_OneClickLogPerRedirect ==
    [][ /\ RedirectStep =>
              /\ clicklog' = clicklog
              /\ rresp'.status = 301 =>
                    \E ua \in BOOLEAN :
                        queue' = Incr(queue, [url |-> rresp'.location, ua |-> ua])
              /\ rresp'.status \in {400, 403} => queue' = queue
        /\ \A t \in DOMAIN queue :
              (~RedirectStep /\ queue' = Taken(queue, t)) =>
                  clicklog' = Incr(clicklog, t.url) ]_vars

(***************************************************************************)
(* C18: no failure of the click pipeline changes a redirect response: a    *)
(* redirect whose code resolves and whose IP is not blocked returns 301 to *)
(* the destination even when the log_click task cannot be enqueued, and a  *)
(* failing log_click execution leaves the response as it was.              *)
(***************************************************************************)
C18_PipelineFailureNotPropagated ==
    [][ /\ (/\ RedirectStep
            /\ Destination(cache, rresp'.code).ok
            /\ is_blocked_ip(cache, blocked_ips, rresp'.ip,
                             Destination(cache, rresp'.code).url).result = "False") =>
              /\ rresp'.status = 301
              /\ rresp'.location = Destination(cache, rresp'.code).url
        /\ ~RedirectStep => rresp' = rresp ]_vars

(***************************************************************************)
(* C19: no redirect, log_click execution, count_log_click run (successful  *)
(* or failed) or cache_popular_urls run lowers the click_count of a Link.  *)
(* These are the steps that leave the shorten requests as they are.        *)
(***************************************************************************)
C19_ClickCountMonotone ==
    [][ sreq' = sreq =>
          /\ Len(links') = Len(links)
          /\ \A i \in 1..Len(links) :
                links'[i].click_count >= links[i].click_count ]_vars

\* a Link counted up to the popularity threshold and warmed into the cache,
\* after which a run returned False
C19_Witness ==
    /\ count_ret = "False"
    /\ nRuns = 2
    /\ \E i \in 1..Len(links) :
          /\ links[i].click_count >= POPULAR_CLICKS
          /\ links[i].short_code \in DOMAIN cache.short_link
          /\ cache.short_link[links[i].short_code].timeout = WARM_TIMEOUT

(***************************************************************************)
(* C20: a redirect in which is_blocked_ip reports not-blocked leaves the   *)
(* blocked_ip_all and blocked_ip_link entries of the cache as they were,   *)
(* and every such entry in the cache holds a blocked verdict.              *)
(***************************************************************************)
C20_NoNegativeCaching ==
    [][ /\ (/\ RedirectStep
            /\ Destination(cache, rresp'.code).ok
            /\ ~GlobalVerdict(cache, rresp'.ip)
            /\ ~LinkVerdict(cache, rresp'.ip, Destination(cache, rresp'.code).url)
            /\ ActiveEntries(rresp'.ip) = {}) =>
              /\ rresp'.status = 301
              /\ cache'.blocked_ip_all = cache.blocked_ip_all
              /\ cache'.blocked_ip_link = cache.blocked_ip_link
        /\ \A k \in DOMAIN cache'.blocked_ip_all : cache'.blocked_ip_all[k].value
        /\ \A k \in DOMAIN cache'.blocked_ip_link : cache'.blocked_ip_link[k].value ]_vars

\* an IP whose only BlockEntry is inactive was redirected; no verdict is cached
C20_Witness ==
    /\ rresp.status = 301
    /\ rresp.ip = IP_A
    /\ \E e \in blocked_ips : e.ip_address = IP_A /\ ~e.is_active
    /\ DOMAIN cache.blocked_ip_all = {}
    /\ DOMAIN cache.blocked_ip_link = {}

(***************************************************************************)
(* C21: count_log_click drains the hash log_click increments: when a run   *)
(* during which no log_click ran completes without a failure, the hash     *)
(* written by log_click is empty and every count it held has been applied  *)
(* by the run.                                                             *)
(***************************************************************************)
C21_SameAccumulator ==
    [][ (RunCompletes /\ ~overlap) =>
          /\ redis'[REDIS_CLICK_KEY] = EmptyMap
          /\ \A f \in DOMAIN redis[REDIS_CLICK_KEY] :
                Get(drained', f, 0) = Get(drained, f, 0) + redis[REDIS_CLICK_KEY][f] ]_vars

(***************************************************************************)
(* C22: clicks on a code returned by the shorten endpoint are counted on   *)
(* the Link of that request: when count_log_click, reading the hash that   *)
(* log_click writes, completes a run during which no log_click ran, the    *)
(* click_count of the Link has grown by at least the clicks logged for the *)
(* code's destination since the previous run.                              *)
(***************************************************************************)
C22_ReturnedCodeCountsOnLink ==
    [][ (RunCompletes /\ ~overlap /\ redis_click_key = REDIS_CLICK_KEY) =>
          \A r \in Reqs :
              (sreq[r].pc = "done" /\ sreq[r].status = 201) =>
                  links'[sreq[r].link].click_count >=
                      links[sreq[r].link].click_count
                        + Get(window, Destination(cache, sreq[r].short_url).url, 0) ]_vars

(***************************************************************************)
(* C23: whatever the interleaving of the shorten requests, no two Link     *)
(* rows have the same (canonical URL, campaign) pair.                      *)
(***************************************************************************)
C23_OneLinkPerPair ==
    \A i, j \in 1..Len(links) :
        (links[i].original_url = links[j].original_url
            /\ links[i].campaign = links[j].campaign) => i = j

\* the IP is not blocked for the URL: no verdict is cached and no active
\* BlockEntry of the IP is global or lists the URL
NotBlocked(c, ip, url) ==
    /\ ~GlobalVerdict(c, ip)
    /\ ~LinkVerdict(c, ip, url)
    /\ \A e \in ActiveEntries(ip) : ~e.is_blocked_for_all_url /\ url \notin e.blocked_links

(***************************************************************************)
(* C24: whatever the Link table holds for a signature-valid code (no Link, *)
(* or a Link of any status), a redirect for it from an IP that is not      *)
(* blocked returns a 301 to the code's destination.                        *)
(***************************************************************************)
C24_RedirectIgnoresLinks ==
    [][ (/\ RedirectStep
         /\ ~UndecodableCode(rresp'.code)
         /\ NotBlocked(cache, rresp'.ip, Destination(cache, rresp'.code).url)) =>
          /\ rresp'.status = 301
          /\ rresp'.location = Destination(cache, rresp'.code).url ]_vars
=============================================================================
